---- MODULE Spec2Model ----
(***************************************************************************)
(* Model of src/th.rs: the process-wide CURRENT_THEME store             *)
(* (Lazy<Mutex<Theme>>), set_theme, get_current_theme, get_theme_css and   *)
(* the two apply_theme variants, called concurrently by several threads.   *)
(***************************************************************************)
EXTENDS Integers, Sequences, FiniteSets, TLC

(* ------------------------------ bounds -------------------------------- *)

NumThreads == 2
MaxCalls == 3
MaxIndent == 12

Threads == 1..NumThreads

(* ------------------------------ Theme --------------------------------- *)

\* struct Theme: the eight fields, in declaration order
FieldNames ==
  << "background_color", "primary_color", "secondary_color", "tertiary_color",
     "accent_color", "text_primary", "text_secondary", "shadow_color" >>

NumFields == Len(FieldNames)

\* a Theme-shaped value that no constructor of the program produces; it
\* stands for "no value" in locals and results that are not set
NoTheme == [f \in {FieldNames[i] : i \in 1..NumFields} |-> ""]

DefaultTheme_lowercase ==
  [ background_color |-> "#0a0c11",
    primary_color    |-> "#004d4d",
    secondary_color  |-> "#006666",
    tertiary_color   |-> "#008080",
    accent_color     |-> "#00cccc",
    text_primary     |-> "#e6f3f3",
    text_secondary   |-> "#001a1a",
    shadow_color     |-> "rgba(0, 204, 204, 0.2)" ]

\* impl Default for Theme
DefaultTheme ==
  [ background_color |-> "#0A0C11",
    primary_color    |-> "#004d4d",
    secondary_color  |-> "#006666",
    tertiary_color   |-> "#008080",
    accent_color     |-> "#00cccc",
    text_primary     |-> "#e6f3f3",
    text_secondary   |-> "#001a1a",
    shadow_color     |-> "rgba(0, 204, 204, 0.2)" ]

(* ------------------------- practice registry -------------------------- *)

\* The registry behind get_practice_by_id: practice id -> visual.colors.
\* "whm_basic" is the id the unit test uses; its first two colours are the
\* ones the test asserts.
Registry ==
  [ whm_basic |->
      [ background_color |-> "#0A0C11",
        primary_color    |-> "#004d4d",
        secondary_color  |-> "#116677",
        tertiary_color   |-> "#118899",
        accent_color     |-> "#11ccdd",
        text_primary     |-> "#e6f3ff",
        text_secondary   |-> "#001a2a",
        shadow_color     |-> "rgba(17, 204, 221, 0.2)" ],
    box_breathing |->
      [ background_color |-> "#1B1028",
        primary_color    |-> "#4d004d",
        secondary_color  |-> "#660066",
        tertiary_color   |-> "#800080",
        accent_color     |-> "#cc00cc",
        text_primary     |-> "#f3e6f3",
        text_secondary   |-> "#1a001a",
        shadow_color     |-> "rgba(204, 0, 204, 0.2)" ] ]

\* the identifiers callers pass to set_theme: two registered, one not
PracticeIds == {"whm_basic", "box_breathing", "no_such_practice"}

\* get_practice_by_id(practice_id) -> Option<Practice>
get_practice_by_id(practice_id) ==
  IF practice_id \in DOMAIN Registry
    THEN [some |-> TRUE, colors |-> Registry[practice_id]]
    ELSE [some |-> FALSE, colors |-> NoTheme]

ThemeFromColors_transposed(colors) ==
  [ background_color |-> colors.background_color,
    primary_color    |-> colors.primary_color,
    secondary_color  |-> colors.secondary_color,
    tertiary_color   |-> colors.tertiary_color,
    accent_color     |-> colors.accent_color,
    text_primary     |-> colors.text_secondary,
    text_secondary   |-> colors.text_primary,
    shadow_color     |-> colors.shadow_color ]

\* the Theme { ... } literal of set_theme's hit branch
ThemeFromColors(colors) ==
  [ background_color |-> colors.background_color,
    primary_color    |-> colors.primary_color,
    secondary_color  |-> colors.secondary_color,
    tertiary_color   |-> colors.tertiary_color,
    accent_color     |-> colors.accent_color,
    text_primary     |-> colors.text_primary,
    text_secondary   |-> colors.text_secondary,
    shadow_color     |-> colors.shadow_color ]

(* --------------------------- get_theme_css ----------------------------- *)

FormatCss_argsSwapped(th) ==
  ":root {\n"
  \o "            --background-color: " \o th.background_color \o ";\n"
  \o "            --primary-color: " \o th.primary_color \o ";\n"
  \o "            --secondary-color: " \o th.secondary_color \o ";\n"
  \o "            --tertiary-color: " \o th.accent_color \o ";\n"
  \o "            --accent-color: " \o th.tertiary_color \o ";\n"
  \o "            --text-primary: " \o th.text_primary \o ";\n"
  \o "            --text-secondary: " \o th.text_secondary \o ";\n"
  \o "            --shadow-color: " \o th.shadow_color \o ";\n"
  \o "        }"

FormatCss_reindented(th) ==
  ":root {\n"
  \o "    --background-color: " \o th.background_color \o ";\n"
  \o "    --primary-color: " \o th.primary_color \o ";\n"
  \o "    --secondary-color: " \o th.secondary_color \o ";\n"
  \o "    --tertiary-color: " \o th.tertiary_color \o ";\n"
  \o "    --accent-color: " \o th.accent_color \o ";\n"
  \o "    --text-primary: " \o th.text_primary \o ";\n"
  \o "    --text-secondary: " \o th.text_secondary \o ";\n"
  \o "    --shadow-color: " \o th.shadow_color \o ";\n"
  \o "}"

\* the format!() of get_theme_css: the string literal keeps the source
\* file's indentation, twelve spaces before each declaration and eight
\* before the closing brace
FormatCss(th) ==
  ":root {\n"
  \o "            --background-color: " \o th.background_color \o ";\n"
  \o "            --primary-color: " \o th.primary_color \o ";\n"
  \o "            --secondary-color: " \o th.secondary_color \o ";\n"
  \o "            --tertiary-color: " \o th.tertiary_color \o ";\n"
  \o "            --accent-color: " \o th.accent_color \o ";\n"
  \o "            --text-primary: " \o th.text_primary \o ";\n"
  \o "            --text-secondary: " \o th.text_secondary \o ";\n"
  \o "            --shadow-color: " \o th.shadow_color \o ";\n"
  \o "        }"

(* ----------------------------- apply_theme ----------------------------- *)

\* the CSS custom properties the wasm32 variant sets, in call order
PropNames ==
  << "--background-color", "--primary-color", "--secondary-color",
     "--tertiary-color", "--accent-color", "--text-primary",
     "--text-secondary", "--shadow-color" >>

NoStyle == [p \in {PropNames[i] : i \in 1..NumFields} |-> ""]

\* #[cfg(target_arch = "wasm32")] apply_theme: the new inline style of the
\* root element; a no-op when window/document/root element is missing
apply_theme_wasm32(th, style, present) ==
  IF present
    THEN [p \in DOMAIN style |->
            LET i == CHOOSE k \in 1..NumFields : PropNames[k] = p
            IN  th[FieldNames[i]]]
    ELSE style

\* #[cfg(not(target_arch = "wasm32"))] apply_theme: the lines it prints
apply_theme_desktop(th) ==
  << "Applying theme (simulated for desktop):",
     "Background color: " \o th.background_color,
     "Primary color: " \o th.primary_color,
     "Secondary color: " \o th.secondary_color,
     "Tertiary color: " \o th.tertiary_color,
     "Accent color: " \o th.accent_color,
     "Text primary: " \o th.text_primary,
     "Text secondary: " \o th.text_secondary,
     "Shadow color: " \o th.shadow_color >>

(* ------------------------------- state --------------------------------- *)

VARIABLES
  initialized,  \* CURRENT_THEME: the Lazy has run its initialiser
  lockOwner,    \* CURRENT_THEME: thread holding the Mutex guard, 0 = free
  poisoned,     \* CURRENT_THEME: a guard was dropped during a panic
  theme,        \* CURRENT_THEME: the Theme inside the Mutex
  target,       \* which apply_theme the build contains
  rootPresent,  \* wasm32: window, document and an HtmlElement root exist
  rootStyle,    \* wasm32: inline style of the document's root element
  stdout,       \* desktop: the lines printed so far
  pc,           \* per thread: position inside the current call
  op,           \* per thread: the function being (or last) called
  arg,          \* per thread: practice_id of the set_theme call
  newval,       \* per thread: the Theme value set_theme is assigning
  widx,         \* per thread: next field the assignment moves into place
  local,        \* per thread: the clone taken by get_current_theme
  retTheme,     \* per thread: last value returned by get_current_theme
  retCss,       \* per thread: last value returned by get_theme_css
  calls,        \* history: number of calls started
  attempted,    \* history: practice ids passed to set_theme so far
  committed,    \* history: values written to the store, in order
  applied,      \* history: values passed to apply_theme, in order
  wrote,        \* history, per thread: value the current call stored
  passed,       \* history, per thread: values the current call applied
  winNo,        \* history: number of set_theme calls started
  winBase,      \* history: what opened the current set_theme-free window
  winReads,     \* history: results of reads lying wholly in the window
  startWin,     \* history, per thread: window the current call began in
  lockSeq       \* history: set_theme callers in the order they got the Mutex

storeVars == << initialized, lockOwner, poisoned, theme >>
surfaceVars == << target, rootPresent, rootStyle, stdout >>
threadVars == << pc, op, arg, newval, widx, local, retTheme, retCss >>
historyVars == << calls, attempted, committed, applied, wrote, passed,
                  winNo, winBase, winReads, startWin, lockSeq >>
vars == << storeVars, surfaceVars, threadVars, historyVars >>

\* winBase values that are not practice ids
BaseFresh == "<no set_theme yet>"
BaseClosed == "<set_theme in progress>"
BaseMixed == "<overlapping set_theme calls>"

\* no set_theme call is in progress
Quiet == \A u \in Threads : op[u] = "set" => pc[u] = "idle"

OthersSetting(t) ==
  \E u \in Threads \ {t} : op[u] = "set" /\ pc[u] # "idle"

Init ==
  /\ initialized = FALSE
  /\ lockOwner = 0
  /\ poisoned = FALSE
  /\ theme = NoTheme
  /\ \/ target = "desktop" /\ rootPresent = FALSE
     \/ target = "wasm32" /\ rootPresent \in BOOLEAN
  /\ rootStyle = NoStyle
  /\ stdout = << >>
  /\ pc = [t \in Threads |-> "idle"]
  /\ op = [t \in Threads |-> "none"]
  /\ arg = [t \in Threads |-> ""]
  /\ newval = [t \in Threads |-> NoTheme]
  /\ widx = [t \in Threads |-> 1]
  /\ local = [t \in Threads |-> NoTheme]
  /\ retTheme = [t \in Threads |-> NoTheme]
  /\ retCss = [t \in Threads |-> ""]
  /\ calls = 0
  /\ attempted = {}
  /\ committed = << >>
  /\ applied = << >>
  /\ wrote = [t \in Threads |-> NoTheme]
  /\ passed = [t \in Threads |-> << >>]
  /\ winNo = 0
  /\ winBase = BaseFresh
  /\ winReads = {}
  /\ startWin = [t \in Threads |-> -1]
  /\ lockSeq = << >>

(* ------------------------------ callers -------------------------------- *)

\* a thread calls set_theme(practice_id); what its previous call returned
\* is dropped
CallSetTheme(t, practice_id) ==
  /\ pc[t] = "idle"
  /\ calls < MaxCalls
  /\ calls' = calls + 1
  /\ pc' = [pc EXCEPT ![t] = "lock"]
  /\ op' = [op EXCEPT ![t] = "set"]
  /\ arg' = [arg EXCEPT ![t] = practice_id]
  /\ attempted' = attempted \cup {practice_id}
  /\ wrote' = [wrote EXCEPT ![t] = NoTheme]
  /\ passed' = [passed EXCEPT ![t] = << >>]
  /\ winNo' = winNo + 1
  /\ winBase' = BaseClosed
  /\ winReads' = {}
  /\ startWin' = [startWin EXCEPT
                    ![t] = IF OthersSetting(t) THEN -1 ELSE winNo + 1]
  /\ local' = [local EXCEPT ![t] = NoTheme]
  /\ retTheme' = [retTheme EXCEPT ![t] = NoTheme]
  /\ retCss' = [retCss EXCEPT ![t] = ""]
  /\ UNCHANGED << storeVars, surfaceVars, newval, widx, committed, applied >>
  /\ UNCHANGED lockSeq

\* a thread calls get_current_theme() (fn = "get") or get_theme_css()
\* (fn = "css"), whose first statement is a call of get_current_theme()
CallRead(t, fn) ==
  /\ pc[t] = "idle"
  /\ calls < MaxCalls
  /\ calls' = calls + 1
  /\ pc' = [pc EXCEPT ![t] = "lock"]
  /\ op' = [op EXCEPT ![t] = fn]
  /\ local' = [local EXCEPT ![t] = NoTheme]
  /\ wrote' = [wrote EXCEPT ![t] = NoTheme]
  /\ passed' = [passed EXCEPT ![t] = << >>]
  /\ startWin' = [startWin EXCEPT ![t] = IF Quiet THEN winNo ELSE -1]
  /\ retTheme' = [retTheme EXCEPT ![t] = NoTheme]
  /\ retCss' = [retCss EXCEPT ![t] = ""]
  /\ UNCHANGED << storeVars, surfaceVars, arg, newval, widx, attempted,
                  committed, applied, winNo, winBase, winReads >>
  /\ UNCHANGED lockSeq

CallGetCurrentTheme(t) == CallRead(t, "get")

CallGetThemeCss(t) == CallRead(t, "css")

(* ------------------------- CURRENT_THEME.lock() ------------------------ *)

Lock_noExclusion(t) ==
  /\ pc[t] = "lock"
  /\ initialized' = TRUE
  /\ theme' = IF initialized THEN theme ELSE DefaultTheme
  /\ IF poisoned
       THEN /\ pc' = [pc EXCEPT ![t] = "panicked"]
            /\ UNCHANGED << lockOwner, lockSeq >>
       ELSE /\ lockOwner' = t
            /\ pc' = [pc EXCEPT ![t] = IF op[t] = "set" THEN "resolve"
                                                       ELSE "clone"]
            /\ lockSeq' = IF op[t] = "set" THEN Append(lockSeq, t)
                                           ELSE lockSeq
  /\ UNCHANGED << poisoned, surfaceVars, op, arg, newval, widx, local,
                  retTheme, retCss, calls, attempted, committed, applied,
                  wrote, passed, winNo, winBase, winReads, startWin >>

\* CURRENT_THEME.lock().unwrap(): the first access runs the Lazy
\* initialiser, the thread then waits until the Mutex is free; unwrap()
\* panics when the Mutex is poisoned
Lock(t) ==
  /\ pc[t] = "lock"
  /\ lockOwner = 0
  /\ initialized' = TRUE
  /\ theme' = IF initialized THEN theme ELSE DefaultTheme
  /\ IF poisoned
       THEN /\ pc' = [pc EXCEPT ![t] = "panicked"]
            /\ UNCHANGED << lockOwner, lockSeq >>
       ELSE /\ lockOwner' = t
            /\ pc' = [pc EXCEPT ![t] = IF op[t] = "set" THEN "resolve"
                                                       ELSE "clone"]
            /\ lockSeq' = IF op[t] = "set" THEN Append(lockSeq, t)
                                           ELSE lockSeq
  /\ UNCHANGED << poisoned, surfaceVars, op, arg, newval, widx, local,
                  retTheme, retCss, calls, attempted, committed, applied,
                  wrote, passed, winNo, winBase, winReads, startWin >>

(* ------------------------------ set_theme ------------------------------ *)

SetResolve_missKeepsOld(t) ==
  /\ pc[t] = "resolve"
  /\ LET found == get_practice_by_id(arg[t])
     IN  newval' = [newval EXCEPT
                      ![t] = IF found.some THEN ThemeFromColors(found.colors)
                                           ELSE theme]
  /\ widx' = [widx EXCEPT ![t] = 1]
  /\ pc' = [pc EXCEPT ![t] = "write"]
  /\ UNCHANGED << storeVars, surfaceVars, op, arg, local, retTheme, retCss,
                  historyVars >>

SetResolve_missPanics(t) ==
  /\ pc[t] = "resolve"
  /\ LET found == get_practice_by_id(arg[t])
     IN  IF found.some
           THEN /\ newval' = [newval EXCEPT
                                ![t] = ThemeFromColors(found.colors)]
                /\ pc' = [pc EXCEPT ![t] = "write"]
                /\ UNCHANGED << lockOwner, poisoned >>
           ELSE /\ pc' = [pc EXCEPT ![t] = "panicked"]
                /\ lockOwner' = 0
                /\ poisoned' = TRUE
                /\ UNCHANGED newval
  /\ widx' = [widx EXCEPT ![t] = 1]
  /\ UNCHANGED << initialized, theme, surfaceVars, op, arg, local, retTheme,
                  retCss, historyVars >>

\* if let Some(practice) = get_practice_by_id(practice_id): the right-hand
\* side of the assignment to *theme, Theme { .. } on a hit, Theme::default()
\* on a miss
SetResolve(t) ==
  /\ pc[t] = "resolve"
  /\ LET found == get_practice_by_id(arg[t])
     IN  newval' = [newval EXCEPT
                      ![t] = IF found.some THEN ThemeFromColors(found.colors)
                                           ELSE DefaultTheme]
  /\ widx' = [widx EXCEPT ![t] = 1]
  /\ pc' = [pc EXCEPT ![t] = "write"]
  /\ UNCHANGED << storeVars, surfaceVars, op, arg, local, retTheme, retCss,
                  historyVars >>

SetWrite_unlocksEarly(t) ==
  /\ pc[t] = "write"
  /\ theme' = [theme EXCEPT ![FieldNames[widx[t]]] =
                              newval[t][FieldNames[widx[t]]]]
  /\ IF widx[t] = NumFields
       THEN /\ pc' = [pc EXCEPT ![t] = "apply"]
            /\ lockOwner' = 0
            /\ committed' = Append(committed, [by |-> t, theme |-> newval[t]])
            /\ wrote' = [wrote EXCEPT ![t] = newval[t]]
            /\ UNCHANGED widx
       ELSE /\ widx' = [widx EXCEPT ![t] = widx[t] + 1]
            /\ UNCHANGED << pc, lockOwner, committed, wrote >>
  /\ UNCHANGED << initialized, poisoned, surfaceVars, op, arg, newval,
                  local, retTheme, retCss, calls, attempted, applied, passed,
                  winNo, winBase, winReads, startWin >>
  /\ UNCHANGED lockSeq

\* *theme = <new value>: the eight fields of the new value are moved into
\* the Mutex's Theme one after the other, the guard being held throughout
SetWrite(t) ==
  /\ pc[t] = "write"
  /\ theme' = [theme EXCEPT ![FieldNames[widx[t]]] =
                              newval[t][FieldNames[widx[t]]]]
  /\ IF widx[t] = NumFields
       THEN /\ pc' = [pc EXCEPT ![t] = "apply"]
            /\ committed' = Append(committed, [by |-> t, theme |-> newval[t]])
            /\ wrote' = [wrote EXCEPT ![t] = newval[t]]
            /\ UNCHANGED widx
       ELSE /\ widx' = [widx EXCEPT ![t] = widx[t] + 1]
            /\ UNCHANGED << pc, committed, wrote >>
  /\ UNCHANGED << initialized, lockOwner, poisoned, surfaceVars, op, arg,
                  newval, local, retTheme, retCss, calls, attempted, applied,
                  passed, winNo, winBase, winReads, startWin >>
  /\ UNCHANGED lockSeq

SetApply_onlyOnHit(t) ==
  /\ pc[t] = "apply"
  /\ pc' = [pc EXCEPT ![t] = "unlock"]
  /\ IF get_practice_by_id(arg[t]).some
       THEN /\ applied' = Append(applied, [by |-> t, theme |-> theme])
            /\ passed' = [passed EXCEPT ![t] = Append(passed[t], theme)]
            /\ IF target = "wasm32"
                 THEN /\ rootStyle' =
                           apply_theme_wasm32(theme, rootStyle, rootPresent)
                      /\ UNCHANGED stdout
                 ELSE /\ stdout' = stdout \o apply_theme_desktop(theme)
                      /\ UNCHANGED rootStyle
       ELSE UNCHANGED << applied, passed, rootStyle, stdout >>
  /\ UNCHANGED << storeVars, target, rootPresent, op, arg, newval, widx,
                  local, retTheme, retCss, calls, attempted, committed,
                  wrote, winNo, winBase, winReads, startWin >>
  /\ UNCHANGED lockSeq

\* apply_theme(&theme): the Applicator is handed the Theme inside the
\* Mutex, through the guard set_theme still holds
SetApply(t) ==
  /\ pc[t] = "apply"
  /\ pc' = [pc EXCEPT ![t] = "unlock"]
  /\ applied' = Append(applied, [by |-> t, theme |-> theme])
  /\ passed' = [passed EXCEPT ![t] = Append(passed[t], theme)]
  /\ IF target = "wasm32"
       THEN /\ rootStyle' = apply_theme_wasm32(theme, rootStyle, rootPresent)
            /\ UNCHANGED stdout
       ELSE /\ stdout' = stdout \o apply_theme_desktop(theme)
            /\ UNCHANGED rootStyle
  /\ UNCHANGED << storeVars, target, rootPresent, op, arg, newval, widx,
                  local, retTheme, retCss, calls, attempted, committed,
                  wrote, winNo, winBase, winReads, startWin >>
  /\ UNCHANGED lockSeq

\* end of set_theme: the guard is dropped, the call returns and its frame
\* is gone
SetReturn(t) ==
  /\ pc[t] = "unlock"
  /\ pc' = [pc EXCEPT ![t] = "idle"]
  /\ lockOwner' = 0
  /\ winBase' = IF startWin[t] = winNo THEN arg[t]
                ELSE IF OthersSetting(t) THEN BaseClosed
                ELSE BaseMixed
  /\ newval' = [newval EXCEPT ![t] = NoTheme]
  /\ widx' = [widx EXCEPT ![t] = 1]
  /\ UNCHANGED << initialized, poisoned, theme, surfaceVars, op, arg, local,
                  retTheme, retCss, calls, attempted, committed, applied,
                  wrote, passed, winNo, winReads, startWin >>
  /\ UNCHANGED lockSeq

(* ------------------ get_current_theme, get_theme_css ------------------- *)

GetClone_take(t) ==
  /\ pc[t] = "clone"
  /\ local' = [local EXCEPT ![t] = theme]
  /\ theme' = DefaultTheme
  /\ lockOwner' = 0
  /\ pc' = [pc EXCEPT ![t] = IF op[t] = "css" THEN "format" ELSE "ret"]
  /\ UNCHANGED << initialized, poisoned, surfaceVars, op, arg, newval, widx,
                  retTheme, retCss, historyVars >>

\* CURRENT_THEME.lock().unwrap().clone(): the Theme is copied out and the
\* temporary guard dropped at the end of the expression
GetClone(t) ==
  /\ pc[t] = "clone"
  /\ local' = [local EXCEPT ![t] = theme]
  /\ lockOwner' = 0
  /\ pc' = [pc EXCEPT ![t] = IF op[t] = "css" THEN "format" ELSE "ret"]
  /\ UNCHANGED << initialized, poisoned, theme, surfaceVars, op, arg, newval,
                  widx, retTheme, retCss, historyVars >>

\* get_current_theme returns the clone to its caller
GetReturn(t) ==
  /\ pc[t] = "ret"
  /\ pc' = [pc EXCEPT ![t] = "idle"]
  /\ retTheme' = [retTheme EXCEPT ![t] = local[t]]
  /\ winReads' = IF startWin[t] = winNo
                   THEN winReads \cup {[fn |-> "get", theme |-> local[t],
                                        css |-> ""]}
                   ELSE winReads
  /\ UNCHANGED << storeVars, surfaceVars, op, arg, newval, widx, local,
                  retCss, calls, attempted, committed, applied, wrote, passed,
                  winNo, winBase, startWin >>
  /\ UNCHANGED lockSeq

\* get_theme_css formats the clone it got and returns the text
CssFormat(t) ==
  /\ pc[t] = "format"
  /\ pc' = [pc EXCEPT ![t] = "idle"]
  /\ retCss' = [retCss EXCEPT ![t] = FormatCss(local[t])]
  /\ winReads' = IF startWin[t] = winNo
                   THEN winReads \cup {[fn |-> "css", theme |-> local[t],
                                        css |-> FormatCss(local[t])]}
                   ELSE winReads
  /\ UNCHANGED << storeVars, surfaceVars, op, arg, newval, widx, local,
                  retTheme, calls, attempted, committed, applied, wrote,
                  passed, winNo, winBase, startWin >>
  /\ UNCHANGED lockSeq

(* --------------------------- specification ----------------------------- *)

\* the steps a thread takes inside a call it has made
Step(t) ==
  \/ Lock(t)
  \/ SetResolve(t)
  \/ SetWrite(t)
  \/ SetApply(t)
  \/ SetReturn(t)
  \/ GetClone(t)
  \/ GetReturn(t)
  \/ CssFormat(t)

Next ==
  \/ \E t \in Threads, practice_id \in PracticeIds :
       CallSetTheme(t, practice_id)
  \/ \E t \in Threads : CallGetCurrentTheme(t)
  \/ \E t \in Threads : CallGetThemeCss(t)
  \/ \E t \in Threads : Lock(t)
  \/ \E t \in Threads : SetResolve(t)
  \/ \E t \in Threads : SetWrite(t)
  \/ \E t \in Threads : SetApply(t)
  \/ \E t \in Threads : SetReturn(t)
  \/ \E t \in Threads : GetClone(t)
  \/ \E t \in Threads : GetReturn(t)
  \/ \E t \in Threads : CssFormat(t)

Spec == Init /\ [][Next]_vars

\* a thread that is inside a call keeps running: the OS schedules every
\* runnable thread, and a thread waiting for the Mutex gets it once the
\* (finitely many) other calls have released it; scheduling does not depend
\* on which apply_theme the build contains, the desktop build is taken
FairInit == Init /\ target = "desktop"

FairSpec ==
  /\ FairInit
  /\ [][Next]_vars
  /\ \A t \in Threads : WF_vars(Step(t))

TypeOK ==
  /\ lockOwner \in 0..NumThreads
  /\ calls \in 0..MaxCalls
  /\ \A t \in Threads : widx[t] \in 1..NumFields

(* ------------------------ vocabulary of the claims --------------------- *)

\* the default theme as the specification's section 6 spells it
LiteralDefault ==
  [ background_color |-> "#0A0C11",
    primary_color    |-> "#004d4d",
    secondary_color  |-> "#006666",
    tertiary_color   |-> "#008080",
    accent_color     |-> "#00cccc",
    text_primary     |-> "#e6f3f3",
    text_secondary   |-> "#001a1a",
    shadow_color     |-> "rgba(0, 204, 204, 0.2)" ]

IsHit(id) == id \in DOMAIN Registry

IsMiss(id) == id \in PracticeIds /\ id \notin DOMAIN Registry

\* what a completed set_theme(id) is specified to leave in the store
Expected(id) == IF IsHit(id) THEN Registry[id] ELSE LiteralDefault

\* the default and the complete palette of every attempted write
WholeThemes == {LiteralDefault} \cup {Expected(id) : id \in attempted}

AllThemes == {LiteralDefault} \cup {Expected(id) : id \in PracticeIds}

IsPrefix(a, b) ==
  /\ Len(a) <= Len(b)
  /\ \A i \in 1..Len(a) : a[i] = b[i]

RECURSIVE Spaces(_)
Spaces(n) == IF n = 0 THEN "" ELSE " " \o Spaces(n - 1)

\* declarations k..8 of a :root block, each indented by n spaces
RECURSIVE Declarations(_, _, _)
Declarations(k, n, th) ==
  IF k > NumFields THEN ""
  ELSE Spaces(n) \o PropNames[k] \o ": " \o th[FieldNames[k]] \o ";\n"
       \o Declarations(k + 1, n, th)

\* one :root block with the eight declarations in the fixed order
CssBlock(n, m, th) ==
  ":root {\n" \o Declarations(1, n, th) \o Spaces(m) \o "}"

\* every layout of the block that differs in indentation only
CssLayouts ==
  [th \in AllThemes |->
     {CssBlock(n, m, th) : n \in 0..MaxIndent, m \in 0..MaxIndent}]

GetsInWindow == {r \in winReads : r.fn = "get"}

CssInWindow == {r \in winReads : r.fn = "css"}

AllIdle == \A t \in Threads : pc[t] = "idle"

(* ------------------------------- claims -------------------------------- *)

\* C1: after a set_theme(id) whose id the registry does not resolve, and
\* until the next set_theme starts, the store holds the default theme and
\* every get_current_theme() returns the default theme in all eight fields,
\* whatever was stored before.
C1_MissFallsBackToDefault ==
  IsMiss(winBase) =>
    /\ theme = LiteralDefault
    /\ \A r \in GetsInWindow : r.theme = LiteralDefault

\* C1 witness: a custom palette was stored, a set_theme with an unknown id
\* replaced it, and a get_current_theme() has returned since.
C1_Witness ==
  /\ IsMiss(winBase)
  /\ GetsInWindow # {}
  /\ Len(committed) >= 2
  /\ committed[Len(committed) - 1].theme = Registry["box_breathing"]

\* C2: after set_theme(P.id) for a practice P of the registry, and until
\* the next set_theme starts, every get_current_theme() returns a theme
\* whose eight fields are P's palette fields of the same names.
C2_HitPropagatesPalette ==
  IsHit(winBase) =>
    /\ \A i \in 1..NumFields :
         theme[FieldNames[i]] = Registry[winBase][FieldNames[i]]
    /\ \A r \in GetsInWindow : \A i \in 1..NumFields :
         r.theme[FieldNames[i]] = Registry[winBase][FieldNames[i]]

\* C2 witness: a theme was stored before, set_theme("box_breathing")
\* replaced it, and a get_current_theme() has returned since.
C2_Witness ==
  /\ winBase = "box_breathing"
  /\ GetsInWindow # {}
  /\ Len(committed) >= 2
  /\ committed[Len(committed) - 1].theme # Registry["box_breathing"]

\* C3: no value returned by get_current_theme and no stored value outside
\* an assignment in progress mixes two palettes: each is the default or the
\* complete palette of one attempted write, and once all set_theme calls
\* have returned the store holds the full result of one of them.
C3_NoTornTheme ==
  /\ (initialized /\ \A t \in Threads : pc[t] # "write")
       => theme \in WholeThemes
  /\ \A t \in Threads :
       /\ local[t] \in WholeThemes \cup {NoTheme}
       /\ retTheme[t] \in WholeThemes \cup {NoTheme}
  /\ (Quiet /\ attempted # {})
       => \E id \in attempted : theme = Expected(id)

\* C3 witness: two set_theme calls with different palettes overlapped, both
\* have returned, and a get_current_theme() has returned a value since.
C3_Witness ==
  /\ Quiet
  /\ winBase = BaseMixed
  /\ Len(committed) >= 2
  /\ committed[1].theme # committed[2].theme
  /\ \E t \in Threads : retTheme[t] # NoTheme

\* C4: every set_theme call, hit or miss, invokes apply_theme exactly once,
\* with the value that same call has just stored; get_current_theme and
\* get_theme_css never invoke it.
C4_AppliesOnceOwnValue ==
  /\ \A t \in Threads :
       /\ Len(passed[t]) <= 1
       /\ (op[t] = "set" /\ pc[t] = "idle")
            => (wrote[t] # NoTheme /\ passed[t] = << wrote[t] >>)
       /\ (op[t] \in {"get", "css"}) => passed[t] = << >>
  /\ Len(applied) <= winNo
  /\ Quiet => Len(applied) = winNo

\* C4 witness: a set_theme that missed has returned, and so has a read.
C4_Witness ==
  /\ \E t \in Threads : op[t] = "set" /\ pc[t] = "idle" /\ IsMiss(arg[t])
  /\ \E u \in Threads : op[u] \in {"get", "css"} /\ pc[u] = "idle"
  /\ Len(applied) = 1

\* C5: as long as no set_theme call has started, the stored theme, from
\* the first lazy access on, and every value read from it carry the literal
\* default values.
C5_DefaultUntilFirstSet ==
  winNo = 0 =>
    /\ initialized => theme = LiteralDefault
    /\ \A t \in Threads :
         /\ local[t] \in {NoTheme, LiteralDefault}
         /\ retTheme[t] \in {NoTheme, LiteralDefault}

\* C5 witness: no set_theme yet, the store has been initialised and two
\* callers have read it, one by get_current_theme, one by get_theme_css.
C5_Witness ==
  /\ winNo = 0
  /\ initialized
  /\ \E t, u \in Threads :
       t # u /\ retTheme[t] = LiteralDefault /\ retCss[u] # ""

\* C6: the text get_theme_css returns is one :root block with exactly the
\* eight declarations in the fixed order, whose values are the eight fields
\* of one whole theme, the one stored when the call read the store.
C6_CssEightDeclarations ==
  /\ \A t \in Threads :
       retCss[t] # "" =>
         /\ local[t] \in WholeThemes
         /\ retCss[t] \in CssLayouts[local[t]]
  /\ \A r \in CssInWindow :
       /\ theme \in WholeThemes
       /\ r.css \in CssLayouts[theme]

\* C6 witness: get_theme_css has returned a custom palette's block while a
\* set_theme call of another caller was in progress.
C6_Witness ==
  \E t, u \in Threads :
    /\ retCss[t] # ""
    /\ local[t] = Registry["box_breathing"]
    /\ op[u] = "set" /\ pc[u] \in {"lock", "write"}

\* C7 as stated: declarations indented by four spaces, the closing brace
\* not indented.
C7_SpecWhitespace ==
  \A t \in Threads :
    retCss[t] # "" =>
      retCss[t] =
        ":root {\n"
        \o "    --background-color: " \o local[t].background_color \o ";\n"
        \o "    --primary-color: " \o local[t].primary_color \o ";\n"
        \o "    --secondary-color: " \o local[t].secondary_color \o ";\n"
        \o "    --tertiary-color: " \o local[t].tertiary_color \o ";\n"
        \o "    --accent-color: " \o local[t].accent_color \o ";\n"
        \o "    --text-primary: " \o local[t].text_primary \o ";\n"
        \o "    --text-secondary: " \o local[t].text_secondary \o ";\n"
        \o "    --shadow-color: " \o local[t].shadow_color \o ";\n"
        \o "}"

\* C7 amended: the text is the line ":root {", eight declaration lines each
\* indented by twelve spaces, and a closing "}" indented by eight spaces,
\* separated by single newlines.
C7_SourceWhitespace ==
  \A t \in Threads :
    retCss[t] # "" =>
      /\ local[t] \in AllThemes
      /\ retCss[t] = CssBlock(12, 8, local[t])

\* C7 witness: get_theme_css has returned the block of the default theme.
C7_Witness ==
  \E t \in Threads :
    op[t] = "css" /\ pc[t] = "idle" /\ local[t] = LiteralDefault

\* C8: a step taken while no set_theme call is in progress leaves the
\* initialised store unchanged; reads lying in one set_theme-free window
\* return one and the same theme and one and the same text; a value a call
\* has returned stays as it is while its caller makes no new call.
C8_ReadsArePure ==
  /\ [][(initialized /\ Quiet) => theme' = theme]_vars
  /\ [](Cardinality(GetsInWindow) <= 1 /\ Cardinality(CssInWindow) <= 1)
  /\ [][\A t \in Threads :
          (pc[t] = "idle" /\ pc'[t] = "idle")
            => (retTheme'[t] = retTheme[t] /\ retCss'[t] = retCss[t])]_vars

\* C8 witness: after a set_theme, two get_current_theme() calls of two
\* callers have both run and returned in the same window.
C8_Witness ==
  /\ winNo >= 1
  /\ \E t, u \in Threads :
       /\ t # u
       /\ op[t] = "get" /\ pc[t] = "idle" /\ startWin[t] = winNo
       /\ op[u] = "get" /\ pc[u] = "idle" /\ startWin[u] = winNo

C10_ApplyOrderIsCommitOrder ==
  /\ IsPrefix(applied, committed)
  /\ Len(committed) <= Len(applied) + 1
  /\ IsPrefix([i \in 1..Len(committed) |-> committed[i].by], lockSeq)
  /\ (Quiet /\ winNo > 0) =>
       /\ applied = committed
       /\ theme = applied[Len(applied)].theme
       /\ applied[Len(applied)].by = lockSeq[Len(lockSeq)]
       /\ (target = "wasm32" /\ rootPresent) =>
            \A k \in 1..NumFields :
              rootStyle[PropNames[k]] = theme[FieldNames[k]]
       /\ target = "desktop" => Len(stdout) = 9 * Len(applied)

\* C10 witness: two set_theme calls of different callers with different
\* palettes have both been applied and have returned.
C10_Witness ==
  /\ Quiet
  /\ Len(applied) >= 2
  /\ applied[1].by # applied[2].by
  /\ applied[1].theme # applied[2].theme

====
